---------------------------- MODULE Spec2Model ----------------------------
(***************************************************************************)
(* The CardClassifier component (src/src/CardClassifier.jsx) as a state    *)
(* machine.  Every step is one task of the browser's event loop: a click   *)
(* or change handler, or the resumption of an async function after an      *)
(* await, run to its next suspension point together with the microtasks    *)
(* and React effects it triggers.  The buttons a step may press are the    *)
(* ones the render function (lines 266-371) shows for the committed state. *)
(*                                                                         *)
(* Optional values: null is the empty tuple, a value x is <<x>>.  Texts    *)
(* (messages, bodies, MIME types) are tuples of words or of characters, so *)
(* that includes() and startsWith() are computed, not assumed.             *)
(***************************************************************************)
EXTENDS Integers, Sequences, FiniteSets, TLC

\* ------------------------------------------------------------------ bounds
\* classifyCard invocations that start a request
MaxClassify == 2
\* getUserMedia calls (openCamera clicks)
MaxOpens == 2
\* object URLs created (URL.createObjectURL)
MaxUrls == 2

\* ------------------------------------------------------------- basic values
Null == <<>>

Some(x) == <<x>>

\* s.startsWith(p) over tuples
StartsWith(s, p) == Len(s) >= Len(p) /\ SubSeq(s, 1, Len(p)) = p

\* s.includes(p) over tuples
Includes(s, p) ==
  \E k \in 0..(Len(s) - Len(p)) : SubSeq(s, k + 1, k + Len(p)) = p

\* ---------------------------------------------------------------- messages
MsgInvalidType == <<"Invalid", "file", "type", "please", "upload", "an", "image.">>

MsgTooLarge == <<"File", "too", "large", "max", "15", "MB.">>

MsgCamera == <<"Cannot", "access", "camera", "or", "adjust", "focus">>

MsgTimedOut == <<"Request", "timed", "out.">>

MsgCors == <<"CORS", "error:", "please", "enable", "CORS", "on", "the", "backend", "or", "use", "a", "proxy.">>

MsgFailed == <<"Failed", "to", "classify.">>

BlockedByCors == <<"blocked", "by", "CORS">>

\* The message of the DOMException a browser rejects an aborted fetch with:
\* implementation-defined text, possibly empty.
AbortMessages ==
  { <<"signal", "is", "aborted", "without", "reason">>, <<>> }

AbortError(m) == [name |-> "AbortError", message |-> m]

\* fetch() rejecting for a network or CORS failure
TypeErrorFetch == [name |-> "TypeError", message |-> <<"Failed", "to", "fetch">>]

\* createImageBitmap() rejecting for an undecodable file
DecodeErrorBitmap == [name |-> "InvalidStateError", message |-> <<"The", "source", "image", "could", "not", "be", "decoded.">>]

\* res.json() rejecting for a body that is not JSON
SyntaxErrorJson == [name |-> "SyntaxError", message |-> <<"Unexpected", "token">>]

\* ------------------------------------------------------------------- inputs
ImagePrefix == <<"i", "m", "a", "g", "e", "/">>

TypePng == <<"i", "m", "a", "g", "e", "/", "p", "n", "g">>

TypePdf == <<"a", "p", "p", "l", "i", "c", "a", "t", "i", "o", "n", "/", "p", "d", "f">>

\* a type that holds "image/" but does not begin with it
TypeNotPrefix == <<"x", "-", "i", "m", "a", "g", "e", "/", "p", "n", "g">>

MAX_SIZE == 15 * 1024 * 1024

\* the files the user may pick: [name, type, size]
PickableFiles ==
  [name : {"card"},
   type : {TypePng, TypePdf, TypeNotPrefix},
   size : {500 * 1024, MAX_SIZE, MAX_SIZE + 1}]

\* the File that capturePhoto's toBlob callback builds
CaptureFile == [name |-> "capture.png", type |-> TypePng, size |-> 100 * 1024]

\* a JSON string and a JSON number, as the label of a response
JsonString(t) == [type |-> "string", str |-> t, num |-> 0]

JsonNumber(n) == [type |-> "number", str |-> "", num |-> n]

\* the responses the endpoint may give: status, statusText, the body as text
\* and the body as JSON (Null when it does not parse); confidence in 1/100000
Responses ==
  { [status |-> 200, statusText |-> <<"OK">>, text |-> <<"json">>,
     json |-> Some([label |-> JsonString("Ace of Spades"), confidence |-> 97320])],
    [status |-> 200, statusText |-> <<"OK">>, text |-> <<"json">>,
     json |-> Some([label |-> JsonNumber(7), confidence |-> 12346])],
    [status |-> 200, statusText |-> <<"OK">>, text |-> <<"<html>">>, json |-> Null],
    [status |-> 500, statusText |-> <<"Internal", "Server", "Error">>,
     text |-> <<"model", "unavailable">>, json |-> Null],
    [status |-> 500, statusText |-> <<>>, text |-> <<>>, json |-> Null] }

NoResponse == [status |-> 0, statusText |-> <<>>, text |-> <<>>, json |-> Null]

\* Response.ok
Ok(res) == res.status >= 200 /\ res.status <= 299

\* ---------------------------------------------------------------- variables
VARIABLES
  apiBaseUrl,     \* API_BASE_URL is configured (non-empty)
  file,           \* useState file: Null or Some([id, name, type, size])
  previewUrl,     \* useState previewUrl: 0 (null) or the number of an object URL
  loading,        \* useState loading
  result,         \* useState result: Null or Some([label, confidence])
  cameraActive,   \* useState cameraActive
  error,          \* useState error: Null or Some(message)
  controllerRef,  \* controllerRef.current: 0 (null) or the number of a request
  streamRef,      \* streamRef.current: 0 (null) or the number of a stream
  reqs,           \* the classifyCard invocations: position, controller, timer
  streams,        \* the MediaStreams getUserMedia returned: tracks live or not
  camPending,     \* getUserMedia calls awaiting the permission result
  blobPending,    \* canvas.toBlob callbacks not yet delivered
  urls,           \* the object URLs created: how often each was revoked
  mounted,        \* the component is mounted
  rafPending,     \* a requestAnimationFrame(draw) is requested and not cancelled
  videoReady,     \* the video has fired loadedmetadata: videoWidth/Height # 0
  last            \* the step taken last: its name, input, request, state before

vars ==
  <<apiBaseUrl, file, previewUrl, loading, result, cameraActive, error,
    controllerRef, streamRef, reqs, streams, camPending, blobPending, urls,
    mounted, rafPending, videoReady, last>>

\* the useState values
session == <<file, previewUrl, loading, result, cameraActive, error>>


\* ------------------------------------------------------- what render shows
\* the spec's SessionState, read off the committed state the way render does
SessionState ==
  IF cameraActive THEN "CameraLive"
  ELSE IF loading THEN "Classifying"
  ELSE IF result # Null THEN "Result"
  ELSE IF file # Null /\ error # Null THEN "Error"
  ELSE IF file # Null THEN "SourceReady"
  ELSE "Idle"

\* <Form.Control type="file"> and the Use Camera button (lines 304-336)
SourceControlsShown == mounted /\ ~cameraActive /\ previewUrl = 0

\* the Capture and Close buttons (lines 284-303)
CameraPaneShown == mounted /\ cameraActive

\* the Classify button rendered without looking at loading
ClassifyShown_IgnoresLoading ==
  mounted /\ ~cameraActive /\ file # Null /\ result = Null

\* the Classify button and the secondary Cancel next to it (lines 338-352)
ClassifyShown ==
  mounted /\ ~cameraActive /\ file # Null /\ ~loading /\ result = Null

\* the Cancel button of a running classification (lines 341-343)
CancelShown == mounted /\ ~cameraActive /\ file # Null /\ loading

\* the Try Again button (lines 344-346)
TryAgainShown ==
  mounted /\ ~cameraActive /\ file # Null /\ ~loading /\ result # Null

\* previewCanvasRef.current: the canvas is mounted with the camera pane only
PreviewCanvasMounted == mounted /\ cameraActive

\* ------------------------------------------------------------------ helpers
\* the record of a step: its name, its input, the request it settled (0: none)
\* with the way that request ended, the SessionState it was taken in, and
\* the draw() it ran: none, sized (video dimensions known) or unsized
Step(act, arg, req, outcome) ==
  [act |-> act, arg |-> arg, req |-> req, outcome |-> outcome, from |-> SessionState,
   draw |-> "none"]

\* a step that ran draw() (lines 85-98) with the video as it was
DrawStep(act, ready) ==
  [Step(act, Null, 0, "none") EXCEPT !.draw = IF ready THEN "sized" ELSE "unsized"]

\* an effect cleanup that forgets cancelAnimationFrame
RenderLoopCleanup_NoCancel ==
  /\ rafPending' = rafPending
  /\ videoReady' = FALSE

\* the cleanup of the effect keyed on cameraActive, run when the camera pane
\* goes away: cancelAnimationFrame(frameId); the video element is unmounted
RenderLoopCleanup ==
  /\ rafPending' = FALSE
  /\ videoReady' = FALSE

\* the effect keyed on cameraActive, run when the camera pane has appeared:
\* the stream is attached to the video (its metadata is not loaded yet),
\* draw() runs once and requests the next frame
RenderLoopStart ==
  /\ rafPending' = TRUE
  /\ videoReady' = FALSE

\* URL.revokeObjectURL(previewUrl), guarded by if (previewUrl)
Revoke(u, k) == IF k = 0 THEN u ELSE [u EXCEPT ![k] = @ + 1]

\* streamRef.current?.getTracks().forEach(track => track.stop())
StopTracks(s, k) == IF k = 0 THEN s ELSE [s EXCEPT ![k] = FALSE]

\* the cleanup of the effect keyed on previewUrl, run when previewUrl changes
\* from its committed value to new: u and s are the URLs and streams so far
PreviewCleanupUrls(u, new) == IF new # previewUrl THEN Revoke(u, previewUrl) ELSE u

PreviewCleanupStreams(s, new) ==
  IF new # previewUrl THEN StopTracks(s, streamRef) ELSE s

\* two decimal digits of n < 100
TwoDigits(n) == IF n < 10 THEN "0" \o ToString(n) ELSE ToString(n)

\* toFixed(2) that cuts the digits off instead of rounding
ToFixed2_Truncates(c) ==
  LET h == c \div 10
  IN ToString(h \div 100) \o "." \o TwoDigits(h % 100)

\* (Number(data.confidence) * 100).toFixed(2), confidence given in 1/100000:
\* the percentage rounded to hundredths, as the text toFixed returns
ToFixed2(c) ==
  LET h == (c + 5) \div 10
  IN ToString(h \div 100) \o "." \o TwoDigits(h % 100)

\* String(data.label)
String(v) == IF v.type = "string" THEN v.str ELSE ToString(v.num)

\* the value classifyCard hands to setResult
ToResult(data) ==
  [label |-> String(data.label), confidence |-> ToFixed2(data.confidence)]

\* the message the catch block of classifyCard displays for err
CatchMessage(err) ==
  IF err.name # "AbortError" THEN MsgTimedOut
  ELSE IF Includes(err.message, BlockedByCors) THEN MsgCors
  ELSE IF err.message # <<>> THEN err.message
  ELSE MsgFailed

\* `HTTP ${res.status}`
HttpStatusText(res) == <<"HTTP", ToString(res.status)>>

\* new Error(text || `HTTP ${res.status}`)
ServerError(text, res) ==
  [name |-> "Error", message |-> IF text # <<>> THEN text ELSE HttpStatusText(res)]

\* ------------------------------------------------------------------- Init
Init ==
  /\ apiBaseUrl \in BOOLEAN
  /\ file = Null
  /\ previewUrl = 0
  /\ loading = FALSE
  /\ result = Null
  /\ cameraActive = FALSE
  /\ error = Null
  /\ controllerRef = 0
  /\ streamRef = 0
  /\ reqs = <<>>
  /\ streams = <<>>
  /\ camPending = 0
  /\ blobPending = 0
  /\ urls = <<>>
  /\ mounted = TRUE
  /\ rafPending = FALSE
  /\ videoReady = FALSE
  /\ last = [act |-> "mount", arg |-> Null, req |-> 0, outcome |-> "none", from |-> "Idle",
             draw |-> "none"]

\* --------------------------------------------------------- file selection
\* the size check written with >= : a file of exactly MAX_SIZE is refused
Validate_SizeInclusive(f) ==
  IF ~StartsWith(f.type, ImagePrefix) THEN MsgInvalidType
  ELSE IF f.size >= MAX_SIZE THEN MsgTooLarge
  ELSE <<>>

\* the checks of handleFileChange: <<>> accepted, else the rejection message
Validate(f) ==
  IF ~StartsWith(f.type, ImagePrefix) THEN MsgInvalidType
  ELSE IF f.size > MAX_SIZE THEN MsgTooLarge
  ELSE <<>>

\* onChange of the file input; picked is e.target.files[0] (Null: none)
handleFileChange(picked) ==
  /\ SourceControlsShown
  /\ last' = Step("handleFileChange", picked, 0, "none")
  /\ IF picked = Null
     THEN UNCHANGED <<file, previewUrl, result, error, urls, streams>>
     ELSE LET f == picked[1]
              k == Len(urls) + 1
          IN IF Validate(f) # <<>>
             THEN /\ error' = Some(Validate(f))
                  /\ UNCHANGED <<file, previewUrl, result, urls, streams>>
             ELSE /\ Len(urls) + blobPending < MaxUrls
                  /\ error' = Null
                  /\ file' = Some([id |-> k, name |-> f.name, type |-> f.type, size |-> f.size])
                  /\ result' = Null
                  /\ previewUrl' = k
                  /\ urls' = PreviewCleanupUrls(Append(urls, 0), k)
                  /\ streams' = PreviewCleanupStreams(streams, k)
  /\ UNCHANGED <<apiBaseUrl, mounted, rafPending, videoReady, loading, cameraActive, controllerRef, streamRef,
                 reqs, camPending, blobPending>>

\* ------------------------------------------------------------------ camera
\* openCamera up to its await: getUserMedia is asked for a stream
openCamera ==
  /\ SourceControlsShown
  /\ Len(streams) + camPending < MaxOpens
  /\ camPending' = camPending + 1
  /\ last' = Step("openCamera", Null, 0, "none")
  /\ UNCHANGED <<apiBaseUrl, mounted, rafPending, videoReady, file, previewUrl, loading, result, cameraActive, error,
                 controllerRef, streamRef, reqs, streams, blobPending, urls>>

\* openCamera resumed with a stream
CameraGranted ==
  /\ camPending > 0
  /\ camPending' = camPending - 1
  /\ streams' = Append(streams, TRUE)
  /\ streamRef' = Len(streams) + 1
  /\ IF mounted
     THEN /\ cameraActive' = TRUE
          /\ error' = Null
          /\ IF cameraActive
             THEN /\ UNCHANGED <<rafPending, videoReady>>
                  /\ last' = Step("CameraGranted", Null, 0, "none")
             ELSE /\ RenderLoopStart
                  /\ last' = DrawStep("CameraGranted", FALSE)
     ELSE /\ UNCHANGED <<cameraActive, error, rafPending, videoReady>>
          /\ last' = Step("CameraGranted", Null, 0, "none")
  /\ UNCHANGED <<apiBaseUrl, mounted, file, previewUrl, loading, result,
                 controllerRef, reqs, blobPending, urls>>

\* openCamera resumed with a rejection: permission denied or no camera
CameraDenied ==
  /\ camPending > 0
  /\ camPending' = camPending - 1
  /\ error' = IF mounted THEN Some(MsgCamera) ELSE error
  /\ last' = Step("CameraDenied", Null, 0, "none")
  /\ UNCHANGED <<apiBaseUrl, mounted, rafPending, videoReady, file, previewUrl, loading, result, cameraActive,
                 controllerRef, streamRef, reqs, streams, blobPending, urls>>

\* the Capture button
capturePhoto ==
  /\ CameraPaneShown
  /\ Len(urls) + blobPending < MaxUrls
  /\ blobPending' = IF PreviewCanvasMounted THEN blobPending + 1 ELSE blobPending
  /\ result' = Null
  /\ streams' = StopTracks(streams, streamRef)
  /\ cameraActive' = FALSE
  /\ RenderLoopCleanup
  /\ last' = Step("capturePhoto", Null, 0, "none")
  /\ UNCHANGED <<apiBaseUrl, mounted, file, previewUrl, loading, error, controllerRef,
                 streamRef, reqs, camPending, urls>>

\* the callback capturePhoto gave to canvas.toBlob
BlobReady ==
  /\ blobPending > 0
  /\ blobPending' = blobPending - 1
  /\ LET k == Len(urls) + 1
     IN IF mounted
        THEN /\ previewUrl' = k
             /\ file' = Some([id |-> k, name |-> CaptureFile.name,
                              type |-> CaptureFile.type, size |-> CaptureFile.size])
             /\ urls' = PreviewCleanupUrls(Append(urls, 0), k)
             /\ streams' = PreviewCleanupStreams(streams, k)
        ELSE /\ urls' = Append(urls, 0)
             /\ UNCHANGED <<previewUrl, file, streams>>
  /\ last' = Step("BlobReady", Null, 0, "none")
  /\ UNCHANGED <<apiBaseUrl, mounted, rafPending, videoReady, loading, result, cameraActive, error, controllerRef,
                 streamRef, reqs, camPending>>

\* the Close button
closeCamera ==
  /\ CameraPaneShown
  /\ streams' = StopTracks(streams, streamRef)
  /\ cameraActive' = FALSE
  /\ RenderLoopCleanup
  /\ last' = Step("closeCamera", Null, 0, "none")
  /\ UNCHANGED <<apiBaseUrl, mounted, file, previewUrl, loading, result, error, controllerRef,
                 streamRef, reqs, camPending, blobPending, urls>>

\* ---------------------------------------------------------- classification
\* the request record of a classifyCard invocation that is starting:
\* pc        where the async function is suspended (bitmap, fetch, text, json)
\*           or done once its finally block has run
\* by        controller.signal while the invocation runs: "none" while not
\*           aborted, else who aborted it (user, timer)
\* timer     the setTimeout of line 184 is armed
\* res       the Response fetch resolved with (NoResponse before it)
\* src       the id of the file in the closure of the invocation
\* reports   calls of setResult / setError the invocation made
\* cleanups  runs of its finally block
NewRequest(pc) ==
  [pc |-> pc, by |-> "none", timer |-> TRUE, res |-> NoResponse,
   src |-> IF file = Null THEN 0 ELSE file[1].id,
   reports |-> 0, cleanups |-> 0]

InFlight == {i \in 1..Len(reqs) : reqs[i].pc # "done"}

\* the end of classifyCard for request i, whose record has become r: one call
\* of setResult or setError (newResult, newError), then the finally block.
\* Once the function has returned its locals are gone and its controller is
\* reachable from its timer only: res and by go back to their first values.
Finish(i, r, newResult, newError) ==
  /\ result' = IF mounted THEN newResult ELSE result
  /\ error' = IF mounted THEN newError ELSE error
  /\ loading' = IF mounted THEN FALSE ELSE loading
  /\ controllerRef' = 0
  /\ reqs' = [reqs EXCEPT ![i] =
                [r EXCEPT !.pc = "done", !.res = NoResponse, !.by = "none",
                          !.reports = @ + 1, !.cleanups = @ + 1]]

\* the catch block, then finally
Catch(i, r, err) ==
  Finish(i, r, result, Some(CatchMessage(err)))

\* controller.abort() on the controller of request i, whose record is r (with
\* what the caller already changed), by the user or by the timer.  The
\* pending fetch or body read rejects and classifyCard runs to its end in the
\* same task; createImageBitmap is not abortable, so there only the signal
\* is set.  Aborting a signal that is aborted already, or one whose
\* invocation is over, changes nothing the program reads.
AbortOutcome(by) == IF by = "user" THEN "cancel" ELSE "timeout"

Abort(i, r, by) ==
  IF r.by # "none" \/ r.pc = "done"
  THEN /\ reqs' = [reqs EXCEPT ![i] = r]
       /\ UNCHANGED <<result, error, loading, controllerRef>>
  ELSE LET a == [r EXCEPT !.by = by]
       IN CASE r.pc = "bitmap" ->
                 /\ reqs' = [reqs EXCEPT ![i] = a]
                 /\ UNCHANGED <<result, error, loading, controllerRef>>
            [] r.pc = "fetch" ->
                 \E m \in AbortMessages : Catch(i, a, AbortError(m))
            [] r.pc = "text" ->
                 Catch(i, a, ServerError(r.res.statusText, r.res))
            [] r.pc = "json" ->
                 \E m \in AbortMessages : Catch(i, a, AbortError(m))

\* classifyCard from its call to its first await
classifyCard ==
  IF (file = Null /\ ~PreviewCanvasMounted) \/ ~apiBaseUrl
  THEN UNCHANGED <<loading, result, error, controllerRef, reqs>>
  ELSE /\ Len(reqs) < MaxClassify
       /\ loading' = TRUE
       /\ result' = Null
       /\ error' = Null
       /\ controllerRef' = Len(reqs) + 1
       /\ reqs' = Append(reqs,
                    IF file # Null /\ ~cameraActive
                    THEN NewRequest("bitmap")
                    ELSE NewRequest("fetch"))

\* the Classify button
ClassifyClick ==
  /\ ClassifyShown
  /\ classifyCard
  /\ last' = Step("classifyCard", Null, 0, "none")
  /\ UNCHANGED <<apiBaseUrl, mounted, rafPending, videoReady, file, previewUrl, cameraActive, streamRef, streams,
                 camPending, blobPending, urls>>

\* createImageBitmap(file) resolved: the canvas is drawn and fetch is called;
\* with the signal already aborted fetch rejects at once
BitmapReady(i) ==
  /\ i \in 1..Len(reqs)
  /\ reqs[i].pc = "bitmap"
  /\ IF reqs[i].by # "none"
     THEN \E m \in AbortMessages : Catch(i, reqs[i], AbortError(m))
     ELSE /\ reqs' = [reqs EXCEPT ![i].pc = "fetch"]
          /\ UNCHANGED <<result, error, loading, controllerRef>>
  /\ last' = IF reqs[i].by # "none"
              THEN Step("BitmapReady", Null, i, AbortOutcome(reqs[i].by))
              ELSE Step("BitmapReady", Null, 0, "none")
  /\ UNCHANGED <<apiBaseUrl, mounted, rafPending, videoReady, file, previewUrl, cameraActive, streamRef, streams,
                 camPending, blobPending, urls>>

\* createImageBitmap(file) rejected: the file does not decode
BitmapFailed(i) ==
  /\ i \in 1..Len(reqs)
  /\ reqs[i].pc = "bitmap"
  /\ Catch(i, reqs[i], DecodeErrorBitmap)
  /\ last' = Step("BitmapFailed", Null, i, "decode")
  /\ UNCHANGED <<apiBaseUrl, mounted, rafPending, videoReady, file, previewUrl, cameraActive, streamRef, streams,
                 camPending, blobPending, urls>>

\* fetch resolved with the response headers: clearTimeout, then the body read
FetchResponded(i, res) ==
  /\ i \in 1..Len(reqs)
  /\ reqs[i].pc = "fetch"
  /\ reqs' = [reqs EXCEPT ![i] =
                [@ EXCEPT !.timer = FALSE, !.res = res,
                          !.pc = IF Ok(res) THEN "json" ELSE "text"]]
  /\ last' = Step("FetchResponded", Null, 0, "none")
  /\ UNCHANGED <<apiBaseUrl, mounted, rafPending, videoReady, file, previewUrl, loading, result, cameraActive, error,
                 controllerRef, streamRef, streams, camPending, blobPending, urls>>

\* fetch rejected: network or CORS failure
FetchFailed(i) ==
  /\ i \in 1..Len(reqs)
  /\ reqs[i].pc = "fetch"
  /\ Catch(i, reqs[i], TypeErrorFetch)
  /\ last' = Step("FetchFailed", Null, i, "transport")
  /\ UNCHANGED <<apiBaseUrl, mounted, rafPending, videoReady, file, previewUrl, cameraActive, streamRef, streams,
                 camPending, blobPending, urls>>

\* res.text() of a non-2xx response settled: the body text, or res.statusText
\* when the read failed; then throw new Error(text || `HTTP ${res.status}`)
BodyText(i, readOk) ==
  /\ i \in 1..Len(reqs)
  /\ reqs[i].pc = "text"
  /\ LET res == reqs[i].res
         text == IF readOk THEN res.text ELSE res.statusText
     IN /\ Catch(i, reqs[i], ServerError(text, res))
        /\ last' = Step("BodyText", Some(text), i, "server")
  /\ UNCHANGED <<apiBaseUrl, mounted, rafPending, videoReady, file, previewUrl, cameraActive, streamRef, streams,
                 camPending, blobPending, urls>>

\* res.json() of a 2xx response settled: the data, or a SyntaxError
BodyJson(i) ==
  /\ i \in 1..Len(reqs)
  /\ reqs[i].pc = "json"
  /\ LET res == reqs[i].res
     IN IF res.json # Null
        THEN /\ Finish(i, reqs[i], Some(ToResult(res.json[1])), error)
             /\ last' = Step("BodyJson", res.json, i, "success")
        ELSE /\ Catch(i, reqs[i], SyntaxErrorJson)
             /\ last' = Step("BodyJson", Null, i, "decode")
  /\ UNCHANGED <<apiBaseUrl, mounted, rafPending, videoReady, file, previewUrl, cameraActive, streamRef, streams,
                 camPending, blobPending, urls>>

\* a timer callback that reports the timeout itself instead of aborting:
\* () => { setError("Request timed out."); setLoading(false); }
TimerFired_ReportsItself(i) ==
  /\ i \in 1..Len(reqs)
  /\ reqs[i].timer
  /\ reqs' = [reqs EXCEPT ![i] = [@ EXCEPT !.timer = FALSE, !.reports = @ + 1]]
  /\ error' = Some(MsgTimedOut)
  /\ loading' = FALSE
  /\ last' = Step("TimerFired", Null, 0, "none")
  /\ UNCHANGED <<apiBaseUrl, mounted, rafPending, videoReady, file, previewUrl, result, cameraActive, controllerRef,
                 streamRef, streams, camPending, blobPending, urls>>

\* a timer callback that aborts whatever request is current:
\* () => controllerRef.current?.abort()
TimerFired_AbortsCurrent(i) ==
  /\ i \in 1..Len(reqs)
  /\ reqs[i].timer
  /\ IF controllerRef # 0 /\ controllerRef # i
     THEN LET disarmed == [reqs EXCEPT ![i].timer = FALSE]
              j == controllerRef
          IN /\ reqs' = [disarmed EXCEPT ![j] = [@ EXCEPT !.by = "timer",
                            !.pc = IF @ = "bitmap" THEN "bitmap" ELSE "done",
                            !.reports = IF reqs[j].pc = "bitmap" THEN @ ELSE @ + 1,
                            !.cleanups = IF reqs[j].pc = "bitmap" THEN @ ELSE @ + 1]]
             /\ IF reqs[j].pc = "bitmap"
                THEN UNCHANGED <<result, error, loading, controllerRef>>
                ELSE /\ error' = Some(MsgFailed)
                     /\ loading' = FALSE
                     /\ controllerRef' = 0
                     /\ UNCHANGED result
     ELSE Abort(i, [reqs[i] EXCEPT !.timer = FALSE], "timer")
  /\ last' = Step("TimerFired", Null, 0, "none")
  /\ UNCHANGED <<apiBaseUrl, mounted, rafPending, videoReady, file, previewUrl, cameraActive, streamRef, streams,
                 camPending, blobPending, urls>>

\* the deadline timer of request i fires: () => controller.abort()
TimerFired(i) ==
  /\ i \in 1..Len(reqs)
  /\ reqs[i].timer
  /\ Abort(i, [reqs[i] EXCEPT !.timer = FALSE], "timer")
  /\ last' = IF reqs'[i].pc # reqs[i].pc
              THEN Step("TimerFired", Null, i, "timeout")
              ELSE Step("TimerFired", Null, 0, "none")
  /\ UNCHANGED <<apiBaseUrl, mounted, rafPending, videoReady, file, previewUrl, cameraActive, streamRef, streams,
                 camPending, blobPending, urls>>

\* --------------------------------------------------- cancel, reset, clear
\* a reset that forgets setError(null)
ResetAll_KeepsError ==
  /\ file' = Null
  /\ previewUrl' = 0
  /\ result' = Null
  /\ error' = error
  /\ urls' = PreviewCleanupUrls(urls, 0)
  /\ streams' = PreviewCleanupStreams(streams, 0)

\* setFile(null); setPreviewUrl(null); setResult(null); setError(null), and
\* the cleanup of the effect keyed on previewUrl
ResetAll ==
  /\ file' = Null
  /\ previewUrl' = 0
  /\ result' = Null
  /\ error' = Null
  /\ urls' = PreviewCleanupUrls(urls, 0)
  /\ streams' = PreviewCleanupStreams(streams, 0)

\* handleActionClick, the handler of the Cancel and Try Again buttons
handleActionClick ==
  IF loading
  THEN /\ IF controllerRef # 0
          THEN Abort(controllerRef, reqs[controllerRef], "user")
          ELSE UNCHANGED <<result, error, loading, controllerRef, reqs>>
       /\ UNCHANGED <<file, previewUrl, urls, streams>>
  ELSE IF result # Null
  THEN /\ ResetAll
       /\ UNCHANGED <<loading, controllerRef, reqs>>
  ELSE /\ classifyCard
       /\ UNCHANGED <<file, previewUrl, urls, streams>>

\* the Cancel button shown while loading
CancelClick ==
  /\ CancelShown
  /\ handleActionClick
  /\ last' = IF controllerRef # 0 /\ reqs'[controllerRef].pc = "done"
              THEN Step("Cancel", Null, controllerRef,
                        "cancel")
              ELSE Step("Cancel", Null, 0, "none")
  /\ UNCHANGED <<apiBaseUrl, mounted, rafPending, videoReady, cameraActive, streamRef, camPending, blobPending>>

\* the Try Again button shown with a result
TryAgainClick ==
  /\ TryAgainShown
  /\ handleActionClick
  /\ last' = Step("TryAgain", Null, 0, "none")
  /\ UNCHANGED <<apiBaseUrl, mounted, rafPending, videoReady, cameraActive, streamRef, camPending, blobPending>>

\* handleClearSelection, the secondary Cancel button next to Classify
handleClearSelection ==
  /\ ClassifyShown
  /\ ResetAll
  /\ last' = Step("handleClearSelection", Null, 0, "none")
  /\ UNCHANGED <<apiBaseUrl, mounted, rafPending, videoReady, loading, cameraActive, controllerRef, streamRef,
                 reqs, camPending, blobPending>>

\* ------------------------------------------- render loop and teardown
\* the animation frame draw was requested for: draw() runs and requests the
\* next one (lines 85-98)
AnimationFrame ==
  /\ rafPending
  /\ rafPending' = TRUE
  /\ last' = DrawStep("AnimationFrame", videoReady)
  /\ UNCHANGED <<apiBaseUrl, mounted, videoReady, file, previewUrl, loading, result,
                 cameraActive, error, controllerRef, streamRef, reqs, streams,
                 camPending, blobPending, urls>>

\* video.onloadedmetadata (lines 58-82): the video reports its dimensions
LoadedMetadata ==
  /\ mounted
  /\ cameraActive
  /\ ~videoReady
  /\ videoReady' = TRUE
  /\ last' = Step("LoadedMetadata", Null, 0, "none")
  /\ UNCHANGED <<apiBaseUrl, mounted, rafPending, file, previewUrl, loading, result,
                 cameraActive, error, controllerRef, streamRef, reqs, streams,
                 camPending, blobPending, urls>>

\* the component is unmounted: the cleanups of both effects run.  State
\* setters called afterwards do nothing; refs and browser objects still change.
Unmount ==
  /\ mounted
  /\ mounted' = FALSE
  /\ urls' = Revoke(urls, previewUrl)
  /\ streams' = StopTracks(streams, streamRef)
  /\ RenderLoopCleanup
  /\ last' = Step("Unmount", Null, 0, "none")
  /\ UNCHANGED <<apiBaseUrl, file, previewUrl, loading, result, cameraActive, error,
                 controllerRef, streamRef, reqs, camPending, blobPending>>

\* ------------------------------------------------------------ specification
Next ==
  \/ \E f \in PickableFiles : handleFileChange(Some(f))
  \/ handleFileChange(Null)
  \/ openCamera
  \/ CameraGranted
  \/ CameraDenied
  \/ capturePhoto
  \/ BlobReady
  \/ closeCamera
  \/ ClassifyClick
  \/ \E i \in 1..MaxClassify : BitmapReady(i)
  \/ \E i \in 1..MaxClassify : BitmapFailed(i)
  \/ \E i \in 1..MaxClassify, res \in Responses : FetchResponded(i, res)
  \/ \E i \in 1..MaxClassify : FetchFailed(i)
  \/ \E i \in 1..MaxClassify, readOk \in BOOLEAN : BodyText(i, readOk)
  \/ \E i \in 1..MaxClassify : BodyJson(i)
  \/ \E i \in 1..MaxClassify : TimerFired(i)
  \/ CancelClick
  \/ TryAgainClick
  \/ handleClearSelection

Spec == Init /\ [][Next]_vars

\* the upload flow alone: the camera is never asked for
NextUpload ==
  \/ \E f \in PickableFiles : handleFileChange(Some(f))
  \/ handleFileChange(Null)
  \/ ClassifyClick
  \/ \E i \in 1..MaxClassify : BitmapReady(i)
  \/ \E i \in 1..MaxClassify : BitmapFailed(i)
  \/ \E i \in 1..MaxClassify, res \in Responses : FetchResponded(i, res)
  \/ \E i \in 1..MaxClassify : FetchFailed(i)
  \/ \E i \in 1..MaxClassify, readOk \in BOOLEAN : BodyText(i, readOk)
  \/ \E i \in 1..MaxClassify : BodyJson(i)
  \/ \E i \in 1..MaxClassify : TimerFired(i)
  \/ CancelClick
  \/ TryAgainClick
  \/ handleClearSelection

SpecUpload == Init /\ [][NextUpload]_vars

\* the component with its render loop and its teardown
NextLifecycle ==
  \/ Next
  \/ AnimationFrame
  \/ LoadedMetadata
  \/ Unmount

SpecLifecycle == Init /\ [][NextLifecycle]_vars

\* what the runtime guarantees to happen: an armed timer fires, and the
\* local decoding of createImageBitmap completes.  The endpoint and the user
\* owe nothing: no response, no body, no click is ever forced.
Fairness ==
  \A i \in 1..MaxClassify :
    /\ WF_vars(TimerFired(i))
    /\ WF_vars(BitmapReady(i) \/ BitmapFailed(i))

SpecLive == Init /\ [][NextUpload]_vars /\ Fairness

\* ------------------------------------------------------------------ claims
\* the request whose outcome the last step reported (0: none)
Settled == last.req

\* C1: at most one classification request is in flight in every reachable
\* state, and while one is in flight the session is loading and the request
\* handle refers to it, so that Classify is not offered and no second handle
\* is created.
C1_SingleFlight ==
  /\ Cardinality(InFlight) <= 1
  /\ InFlight # {} => (loading /\ controllerRef \in InFlight /\ ~ClassifyShown)
  /\ InFlight = {} => (~loading /\ controllerRef = 0)

\* a second classification was started after the first had settled
C1_Witness ==
  /\ last.act = "classifyCard"
  /\ Len(reqs) = 2
  /\ InFlight = {2}

\* C2: when a request ends by the user's cancel, the session is in
\* SourceReady: not loading, no result, no error message, the file and the
\* preview the request was started for still selected, Classify offered.
C2_CancelIsNotAnError ==
  (Settled # 0 /\ last.outcome = "cancel") =>
    /\ ~loading
    /\ result = Null
    /\ error = Null
    /\ file # Null
    /\ file[1].id = reqs[Settled].src
    /\ previewUrl = reqs[Settled].src

\* C3: when a request ends on a non-2xx response, the session is in Error
\* (not loading, no result) and the message displayed contains the body text,
\* or the status text when the body could not be read.
C3_ServerErrorCarriesBody ==
  (Settled # 0 /\ last.outcome = "server") =>
    /\ ~loading
    /\ result = Null
    /\ error # Null
    /\ Includes(error[1], last.arg[1])

\* C4: when a request ends by its deadline timer, the session is in Error
\* with the timeout message, and the timeout message is not what a server
\* error, a transport error or a cancel displays.
C4_TimeoutMessage ==
  /\ (Settled # 0 /\ last.outcome = "timeout") =>
       (~loading /\ result = Null /\ error = Some(MsgTimedOut))
  /\ (Settled # 0 /\ last.outcome \in {"server", "transport", "cancel"}) =>
       error # Some(MsgTimedOut)

\* C5 (state part): an invocation that has not settled has reported nothing
\* and has not run its cleanup; one that has settled has reported exactly one
\* outcome and has run its cleanup exactly once.
C5_Counts ==
  \A i \in 1..Len(reqs) :
    IF reqs[i].pc = "done"
    THEN reqs[i].reports = 1 /\ reqs[i].cleanups = 1
    ELSE reqs[i].reports = 0 /\ reqs[i].cleanups = 0

\* C5 (step part): a step of an invocation that has settled (its timer firing
\* late) changes nothing of the session state nor the request handle.
C5_NoLateMutation ==
  \A i \in 1..Len(reqs) :
    (reqs[i].pc = "done" /\ reqs'[i] # reqs[i]) =>
      UNCHANGED <<file, previewUrl, loading, result, cameraActive, error, controllerRef>>

C6_TimerDisarmed ==
  \A i \in 1..Len(reqs) : reqs[i].pc = "done" => ~reqs[i].timer

\* C7: a result and an error message are never displayed together.
C7_ResultXorError == ~(result # Null /\ error # Null)

\* C8 (step part): a step that installs a new file is taken with no request
\* in flight and leaves no result and no error.
C8_Install ==
  (file' # file /\ file' # Null) =>
    (InFlight = {} /\ result' = Null /\ error' = Null)

\* C8 (state part): a displayed result, and the outcome a request has just
\* reported, belong to the file that is selected.
C8_Displayed ==
  /\ result # Null => (file # Null /\ file[1].id = reqs[Len(reqs)].src)
  /\ Settled # 0 => (file # Null /\ file[1].id = reqs[Settled].src)

\* C8: no new image source is installed while a request is in flight; what a
\* request displays belongs to the selected image; installing a source
\* leaves result and error null.
C8_NoNewSourceInFlight == []C8_Displayed /\ [][C8_Install]_vars

\* C9: the reset the UI offers in Result (Try Again) and in Error (the
\* Cancel next to Classify) yields Idle with file, preview, result and error
\* cleared; and Result always offers Try Again (a result is never displayed
\* without the file that carries the button row).
C9_ResetYieldsIdle ==
  /\ last.act \in {"TryAgain", "handleClearSelection"} =>
       /\ SessionState = "Idle"
       /\ file = Null /\ previewUrl = 0 /\ result = Null /\ error = Null
       /\ ~loading /\ ~cameraActive
  /\ SessionState = "Result" => TryAgainShown

\* the selection was cleared from Error
C9_Witness ==
  /\ last.act = "handleClearSelection"
  /\ last.from = "Error"
  /\ SessionState = "Idle"

\* C10 (step): selecting a file whose type does not begin with image/ or
\* whose size exceeds 15*1024*1024 leaves file, preview, result and the
\* object URLs as they were; any other file, the one of size 15*1024*1024
\* included, becomes the file with a new preview and no result and no error.
C10_Step ==
  (last'.act = "handleFileChange" /\ last'.arg # Null) =>
    LET f == last'.arg[1]
    IN IF ~StartsWith(f.type, <<"i", "m", "a", "g", "e", "/">>) \/ f.size > 15 * 1024 * 1024
       THEN /\ file' = file /\ previewUrl' = previewUrl /\ result' = result
            /\ urls' = urls
            /\ error' # Null
       ELSE /\ file' # Null
            /\ file'[1].name = f.name /\ file'[1].type = f.type /\ file'[1].size = f.size
            /\ file'[1].id = Len(urls) + 1
            /\ previewUrl' = Len(urls) + 1
            /\ Len(urls') = Len(urls) + 1
            /\ result' = Null /\ error' = Null

\* C10: file validation of selectFile.
C10_FileValidation == [][C10_Step]_vars

\* a file of exactly 15*1024*1024 bytes was accepted
C10_Witness ==
  /\ last.act = "handleFileChange"
  /\ last.arg # Null
  /\ last.arg[1].size = 15 * 1024 * 1024
  /\ file # Null
  /\ file[1].size = 15 * 1024 * 1024
  /\ previewUrl = file[1].id

\* the streams whose tracks are live
ActiveStreams == {k \in 1..Len(streams) : streams[k]}

\* C11: after closeCamera or capturePhoto has run, no track of any stream
\* the session acquired is live.
C11_CameraReleased ==
  last.act \in {"closeCamera", "capturePhoto"} => ActiveStreams = {}

\* C12: at most one acquired stream is unreleased, and it is the one the
\* stream handle refers to.
C12_ExclusiveCamera ==
  /\ Cardinality(ActiveStreams) <= 1
  /\ ActiveStreams \subseteq {streamRef}

\* C18: from Capture until the captured image is installed the file input
\* and Use Camera are not offered; once the toBlob callback has run the
\* session is in SourceReady with the capture as file and preview.
C18_CaptureToSourceReady ==
  /\ blobPending > 0 => ~SourceControlsShown
  /\ last.act = "BlobReady" =>
       /\ SessionState = "SourceReady"
       /\ file # Null /\ file[1].name = "capture.png"
       /\ previewUrl = file[1].id
       /\ ClassifyShown

\* C19 (step): when the timer of request i fires, no other request changes;
\* and when request i has settled already, loading, result, error and the
\* request handle stay as they are.
C19_Step ==
  \A i \in 1..Len(reqs) :
    (reqs[i].timer /\ ~reqs'[i].timer /\ last'.act = "TimerFired") =>
      /\ \A j \in 1..Len(reqs) : j # i => reqs'[j] = reqs[j]
      /\ reqs[i].pc = "done" => UNCHANGED <<loading, result, error, controllerRef>>

\* C19: the deadline timer of an invocation aborts the request of that
\* invocation only.
C19_StaleTimerIsolation == [][C19_Step]_vars

\* the timer of the first request fired while the second was in flight
C19_Witness ==
  /\ last.act = "TimerFired"
  /\ Len(reqs) = 2
  /\ reqs[1].pc = "done" /\ ~reqs[1].timer
  /\ reqs[2].pc # "done" /\ reqs[2].timer /\ reqs[2].by = "none"
  /\ loading

\* C20: while cameraActive, the stream the stream handle refers to has live
\* tracks.
C20_CameraLiveHasStream ==
  cameraActive => (streamRef # 0 /\ streams[streamRef])

\* the result the two 2xx bodies of Responses are to be displayed as
C13_Expected(data) ==
  IF data.label.type = "string"
  THEN [label |-> "Ace of Spades", confidence |-> "97.32"]
  ELSE [label |-> "7", confidence |-> "12.35"]

\* C13 (step): in the upload flow, accepting a file in Idle gives
\* SourceReady; Classify in SourceReady (with the endpoint configured) gives
\* Classifying; the JSON body of a 2xx response gives Result, not loading, no
\* error, the label as a string and the confidence times 100 with 2 decimals
\* (0.9732 gives "97.32", 0.12346 gives "12.35", the label 7 gives "7").
C13_Step ==
  /\ (last'.act = "handleFileChange" /\ file' # file /\ SessionState = "Idle") =>
       SessionState' = "SourceReady"
  /\ (last'.act = "classifyCard" /\ SessionState = "SourceReady" /\ apiBaseUrl) =>
       SessionState' = "Classifying"
  /\ (last'.act = "BodyJson" /\ last'.outcome = "success") =>
       /\ SessionState = "Classifying"
       /\ SessionState' = "Result"
       /\ ~loading'
       /\ error' = Null
       /\ result' = Some(C13_Expected(last'.arg[1]))

\* C13: the happy path of an upload.
C13_HappyPath == [][C13_Step]_vars

\* a 500 KB image was selected and classified as Ace of Spades, 97.32
C13_Witness ==
  /\ last.act = "BodyJson"
  /\ last.outcome = "success"
  /\ file # Null /\ file[1].size = 500 * 1024
  /\ result = Some([label |-> "Ace of Spades", confidence |-> "97.32"])
  /\ SessionState = "Result"

\* C14: whenever the session is loading it eventually stops loading, with
\* no help from the user or the endpoint.
C14_EventuallySettles == loading ~> ~loading


\* C15: a live-preview draw tick runs only while the component is mounted
\* and the camera is active; every step that leaves that state (capture,
\* close, teardown) leaves no animation frame pending, so that no tick is
\* scheduled or run afterwards.
C15_Step ==
  /\ (last'.act = "AnimationFrame" => mounted /\ cameraActive)
  /\ (cameraActive /\ mounted /\ ~(cameraActive' /\ mounted') => ~rafPending')

C15_RenderLoopConfined ==
  /\ [](rafPending => mounted /\ cameraActive)
  /\ [][C15_Step]_vars

\* the camera pane was left, after the loop had started, and no frame is pending
C15_Witness ==
  /\ last.act \in {"capturePhoto", "closeCamera", "Unmount"}
  /\ last.from = "CameraLive"
  /\ ~rafPending

\* C16: no draw() computes the zoom crop or draws before the video has fired
\* loadedmetadata (videoWidth and videoHeight are still 0).
C16_DrawWaitsForDimensions == last.draw # "unsized"

\* C17: every preview URL created is revoked exactly once when it is no
\* longer the displayed preview (superseded, cleared, or the component torn
\* down), and is not revoked while it is the displayed preview.
C17_ReleasedExactlyOnce ==
  \A k \in 1..Len(urls) :
    IF mounted /\ k = previewUrl THEN urls[k] = 0 ELSE urls[k] = 1

=============================================================================
